---- MODULE Spec2Model ----
(***************************************************************************)
(* Model of `platformio device monitor` (device_monitor in                 *)
(* platformio/commands/device/command.py): project option merge, serial    *)
(* port resolution, argument vector construction and the miniterm launch.  *)
(*                                                                         *)
(* Text is modelled as a sequence of one-character strings, so that glob   *)
(* matching, substring search and "0x" stripping are computed.  An         *)
(* optional value is a sequence of length 0 (Python None) or 1.            *)
(***************************************************************************)
EXTENDS Integers, Sequences, FiniteSets, TLC

\* ------------------------------------------------------------------ bounds
MaxPorts == 2
MaxPairs == 2
MaxPatLen == 3

\* --------------------------------------------------------- optional values
None == << >>
Some(v) == << v >>
Val(o) == o[1]

\* Python truthiness of an optional string / optional int.
TruthyStr(o) == o # None /\ Val(o) # << >>
TruthyInt(o) == o # None /\ Val(o) # 0

\* All sequences over S of length lo..hi.
SeqsBetween(S, lo, hi) == UNION { [1..n -> S] : n \in lo..hi }

\* ------------------------------------------------------------ text helpers
\* Python `needle in hay` for strings.
Contains(hay, needle) ==
    \E s \in 1..(Len(hay) - Len(needle) + 1) :
        SubSeq(hay, s, s + Len(needle) - 1) = needle

\* str.replace("0x", ""): left to right, non-overlapping, every occurrence.
RECURSIVE StripAll0x(_)
StripAll0x(s) ==
    IF Len(s) = 0 THEN << >>
    ELSE IF Len(s) >= 2 /\ s[1] = "0" /\ s[2] = "x"
         THEN StripAll0x(SubSeq(s, 3, Len(s)))
         ELSE << s[1] >> \o StripAll0x(Tail(s))

\* hwid_str = f"{hwid[0]}:{hwid[1]}".replace("0x", "")
HwidStr(hwid) == StripAll0x(hwid[1] \o << ":" >> \o hwid[2])

\* ------------------------------------------------------------------ fnmatch
GlobChars == {"*", "?", "[", "]"}

\* {"*", "?", "[", "]"} & set(kwargs["port"])
HasNoGlobChar(s) == \A i \in 1..Len(s) : s[i] \notin GlobChars
\* The glob branch taken as a plain `else`.
AnyPortIsGlob(s) == TRUE
HasGlobChar(s) == ~HasNoGlobChar(s)

\* fnmatch.translate: index of the "]" closing the class opened before
\* position s, or Len(pat)+1 when the "[" is not closed (then it is literal).
RECURSIVE SkipToClose(_, _)
SkipToClose(pat, j) ==
    IF j <= Len(pat) /\ pat[j] # "]" THEN SkipToClose(pat, j + 1) ELSE j

ClassEnd(pat, s) ==
    LET j1 == IF s <= Len(pat) /\ pat[s] = "!" THEN s + 1 ELSE s
        j2 == IF j1 <= Len(pat) /\ pat[j1] = "]" THEN j1 + 1 ELSE j1
    IN SkipToClose(pat, j2)

InClass(ch, stuff) ==
    IF stuff[1] = "!"
    THEN \A k \in 2..Len(stuff) : stuff[k] # ch
    ELSE \E k \in 1..Len(stuff) : stuff[k] = ch

\* name[i..] matches pat[p..] (whole-string match, "*" any run, "?" one
\* character, "[...]" a character class).
RECURSIVE MatchFrom(_, _, _, _)
MatchFrom(name, pat, i, p) ==
    IF p > Len(pat) THEN i > Len(name)
    ELSE CASE pat[p] = "*" ->
                 \/ MatchFrom(name, pat, i, p + 1)
                 \/ (i <= Len(name) /\ MatchFrom(name, pat, i + 1, p))
           [] pat[p] = "?" ->
                 i <= Len(name) /\ MatchFrom(name, pat, i + 1, p + 1)
           [] pat[p] = "[" ->
                 LET j == ClassEnd(pat, p + 1) IN
                 IF j > Len(pat)
                 THEN i <= Len(name) /\ name[i] = "["
                      /\ MatchFrom(name, pat, i + 1, p + 1)
                 ELSE i <= Len(name)
                      /\ InClass(name[i], SubSeq(pat, p + 1, j - 1))
                      /\ MatchFrom(name, pat, i + 1, j + 1)
           [] OTHER ->
                 i <= Len(name) /\ name[i] = pat[p]
                 /\ MatchFrom(name, pat, i + 1, p + 1)

fnmatch(name, pat) == MatchFrom(name, pat, 1, 1)

\* ------------------------------------------------------------ option table
\* The options declared on the `monitor` command, in declaration order.
KeyOrder ==
    << "port", "baud", "parity", "rtscts", "xonxoff", "rts", "dtr", "echo",
       "encoding", "filter", "eol", "raw", "exit_char", "menu_char", "quiet",
       "project_dir", "environment" >>

Keys == { KeyOrder[i] : i \in 1..Len(KeyOrder) }

FlagKeys == {"rtscts", "xonxoff", "echo", "raw", "quiet"}

\* The value click gives each option the user did not pass.
CliDefaults ==
    [ port |-> None, baud |-> None, parity |-> "N", rtscts |-> FALSE,
      xonxoff |-> FALSE, rts |-> None, dtr |-> None, echo |-> FALSE,
      encoding |-> "UTF-8", filter |-> << >>, eol |-> "CRLF", raw |-> FALSE,
      exit_char |-> 3, menu_char |-> 20, quiet |-> FALSE,
      project_dir |-> "cwd", environment |-> None ]

\* `kwargs["baud"] or 9600`
DefaultBaud == 9600

\* ignore=("port", "baud", "rts", "dtr", "environment", "project_dir")
IgnoreWithoutBaud == {"port", "rts", "dtr", "environment", "project_dir"}
Ignore == {"port", "baud", "rts", "dtr", "environment", "project_dir"}

\* project_options = {}
EmptyOptions == [k \in {} |-> None]

\* ------------------------------------------------------------- collaborators
\* device_helpers.apply_project_monitor_options: an option left at its
\* command-line default takes the project's value when the project has one.
apply_project_monitor_options(cli, po) ==
    [k \in Keys |->
        IF cli[k] = CliDefaults[k] /\ k \in DOMAIN po THEN po[k] ELSE cli[k]]

\* One option's tokens: a flag emits "--key" when true; a valued option
\* emits "--key" and its value when it differs from the default or the
\* project names the key.
TokensOf(k, kw, po) ==
    IF k \in FlagKeys
    THEN IF kw[k] THEN << [part |-> "flag", k |-> k] >> ELSE << >>
    ELSE IF kw[k] # CliDefaults[k] \/ k \in DOMAIN po
         THEN << [part |-> "flag", k |-> k],
                 [part |-> "value", k |-> k, v |-> kw[k]] >>
         ELSE << >>

\* device_helpers.options_to_argv(kwargs, project_options, ignore=...)
RECURSIVE ArgvFrom(_, _, _, _)
ArgvFrom(i, kw, po, ignore) ==
    IF i > Len(KeyOrder) THEN << >>
    ELSE (IF KeyOrder[i] \in ignore THEN << >> ELSE TokensOf(KeyOrder[i], kw, po))
         \o ArgvFrom(i + 1, kw, po, ignore)

options_to_argv(kw, po, ignore) == ArgvFrom(1, kw, po, ignore)

\* --------------------------------------------------------------------- state
VARIABLES
    cli,              \* the options as click parsed them (never changes)
    projectCtx,       \* the project file: None when there is no project
    live,             \* the serial ports the OS reports
    boardMeta,        \* "build.hwids" of the project's board
    kwargs,           \* device_monitor's kwargs
    project_options,  \* device_monitor's project_options
    platform,         \* device_monitor's platform
    ports,            \* device_monitor's ports
    argv,             \* sys.argv as device_monitor rewrites it
    launched,         \* the arguments miniterm.main received, None before
    launchCount,      \* calls of miniterm.main
    enumCalls,        \* calls of util.get_serial_ports
    hwidLookups,      \* calls of device_helpers.get_board_hwids
    merged,           \* history: kwargs as the merge step left it
    pc                \* position in device_monitor

vars == << cli, projectCtx, live, boardMeta, kwargs, project_options, platform,
           ports, argv, launched, launchCount, enumCalls, hwidLookups, merged,
           pc >>

env == << cli, projectCtx, live, boardMeta >>

\* util.get_serial_ports(filter_hwid=...): the enumeration snapshot.
get_serial_ports(filter_hwid) == live

\* device_helpers.get_board_hwids(project_dir, platform, board)
get_board_hwids(project_dir, plat, board) == boardMeta

\* device_helpers.get_project_options(environment): None stands for
\* NotPlatformIOProjectError.
get_project_options(environment) == projectCtx

\* ------------------------------------------------------------ port resolution
\* `if not kwargs["port"]`
PortAlwaysUnset(port) == TRUE
PortUnset(port) == ~TruthyStr(port)

\* `"platform" in project_options and "board" in project_options`
HasBoardContext(po) == "platform" \in DOMAIN po /\ "board" \in DOMAIN po

\* for hwid in board_hwids: ... if hwid_str in item["hwid"]: ...; break
RECURSIVE HwidLoop(_, _, _, _)
HwidLoop(item, board_hwids, j, port) ==
    IF j > Len(board_hwids) THEN port
    ELSE IF Contains(item.hwid, HwidStr(board_hwids[j]))
         THEN Some(item.port)
         ELSE HwidLoop(item, board_hwids, j + 1, port)

\* for item in ports: <HwidLoop>; if kwargs["port"]: break
RECURSIVE PortLoop(_, _, _, _)
PortLoop(ps, board_hwids, i, port) ==
    IF i > Len(ps) THEN port
    ELSE LET p2 == HwidLoop(ps[i], board_hwids, 1, port) IN
         IF TruthyStr(p2) THEN p2 ELSE PortLoop(ps, board_hwids, i + 1, p2)

\* The same two loops nested the other way round: pairs outside, ports inside.
RECURSIVE PairMajorPorts(_, _, _, _)
PairMajorPorts(ps, hwid, i, port) ==
    IF i > Len(ps) THEN port
    ELSE IF Contains(ps[i].hwid, HwidStr(hwid))
         THEN Some(ps[i].port)
         ELSE PairMajorPorts(ps, hwid, i + 1, port)

RECURSIVE PairMajorLoop(_, _, _, _)
PairMajorLoop(ps, board_hwids, j, port) ==
    IF j > Len(board_hwids) THEN port
    ELSE LET p2 == PairMajorPorts(ps, board_hwids[j], 1, port) IN
         IF TruthyStr(p2) THEN p2 ELSE PairMajorLoop(ps, board_hwids, j + 1, p2)

CorrelateHwidPairMajor(ps, board_hwids, port) ==
    PairMajorLoop(ps, board_hwids, 1, port)

\* The loops followed by a fallback to the first port when nothing matched.
CorrelateHwidOrFirst(ps, board_hwids, port) ==
    LET p2 == PortLoop(ps, board_hwids, 1, port) IN
    IF ~TruthyStr(p2) /\ Len(ps) > 0 THEN Some(ps[1].port) ELSE p2

CorrelateHwid(ps, board_hwids, port) == PortLoop(ps, board_hwids, 1, port)

\* if len(ports) == 1 ... elif <board context> ...
AutoSelectHwidFirst(ps, po, board_hwids, port) ==
    IF HasBoardContext(po) THEN CorrelateHwid(ps, board_hwids, port)
    ELSE IF Len(ps) = 1 THEN Some(ps[1].port)
    ELSE port

AutoSelect(ps, po, board_hwids, port) ==
    IF Len(ps) = 1 THEN Some(ps[1].port)
    ELSE IF HasBoardContext(po) THEN CorrelateHwid(ps, board_hwids, port)
    ELSE port

\* for item in util.get_serial_ports(): if fnmatch(...): ...; break
RECURSIVE GlobLoop(_, _, _)
GlobLoop(items, i, port) ==
    IF i > Len(items) THEN port
    ELSE IF fnmatch(items[i].port, Val(port)) THEN Some(items[i].port)
         ELSE GlobLoop(items, i + 1, port)

\* The same loop without its break: the last match stays.
RECURSIVE GlobLoopNoBreak(_, _, _, _)
GlobLoopNoBreak(items, i, pattern, port) ==
    IF i > Len(items) THEN port
    ELSE GlobLoopNoBreak(items, i + 1, pattern,
             IF fnmatch(items[i].port, Val(pattern))
             THEN Some(items[i].port) ELSE port)

GlobScanLast(items, port) == GlobLoopNoBreak(items, 1, port, port)

GlobScan(items, port) == GlobLoop(items, 1, port)

\* `kwargs["baud"] or 9600`
BaudOrDefault(baud) == IF TruthyInt(baud) THEN Val(baud) ELSE DefaultBaud

\* `except NotPlatformIOProjectError: pass`: where control goes.
MissingProjectPropagates == "aborted"
OnMissingProject == "loaded"

\* ------------------------------------------------------------------- actions
\* Lines 176-187: load the project's options and merge them into kwargs.
LoadProject ==
    /\ pc = "start"
    /\ LET found == get_project_options(kwargs["environment"]) IN
       IF found = None
       THEN /\ pc' = OnMissingProject
            /\ UNCHANGED << kwargs, project_options, platform >>
       ELSE /\ project_options' = Val(found)
            /\ kwargs' = apply_project_monitor_options(kwargs, Val(found))
            /\ platform' = IF "platform" \in DOMAIN Val(found)
                           THEN Some(Val(found)["platform"]) ELSE None
            /\ pc' = "loaded"
    /\ merged' = kwargs'
    /\ UNCHANGED << env, ports, argv, launched, launchCount, enumCalls,
                    hwidLookups >>

\* Lines 189-190: register the monitor filters (no effect on this state).
RegisterFilters ==
    /\ pc = "loaded"
    /\ pc' = "registered"
    /\ UNCHANGED << env, kwargs, project_options, platform, ports, argv,
                    launched, launchCount, enumCalls, hwidLookups, merged >>

\* Lines 192-214: resolve kwargs["port"].
ResolvePort ==
    /\ pc = "registered"
    /\ IF PortUnset(kwargs["port"])
       THEN /\ ports' = get_serial_ports(TRUE)
            /\ enumCalls' = enumCalls + 1
            /\ hwidLookups' =
                   IF Len(ports') # 1 /\ HasBoardContext(project_options)
                   THEN hwidLookups + 1 ELSE hwidLookups
            /\ kwargs' = [kwargs EXCEPT !["port"] =
                   AutoSelect(ports', project_options,
                              get_board_hwids(kwargs["project_dir"], platform,
                                              project_options["board"]),
                              kwargs["port"])]
       ELSE IF HasGlobChar(Val(kwargs["port"]))
       THEN /\ enumCalls' = enumCalls + 1
            /\ kwargs' = [kwargs EXCEPT !["port"] =
                   GlobScan(get_serial_ports(FALSE), kwargs["port"])]
            /\ UNCHANGED << ports, hwidLookups >>
       ELSE UNCHANGED << kwargs, ports, enumCalls, hwidLookups >>
    /\ pc' = "resolved"
    /\ UNCHANGED << env, project_options, platform, argv, launched,
                    launchCount, merged >>

\* Lines 216-221: sys.argv = ["monitor"] + options_to_argv(...).
BuildArgv ==
    /\ pc = "resolved"
    /\ argv' = << [part |-> "prog", k |-> "monitor"] >>
               \o options_to_argv(kwargs, project_options, Ignore)
    /\ pc' = "argv"
    /\ UNCHANGED << env, kwargs, project_options, platform, ports, launched,
                    launchCount, enumCalls, hwidLookups, merged >>

\* Lines 223-237: print the banner and call miniterm.main, which returns or
\* raises (then MinitermException is raised).
Launch ==
    /\ pc = "argv"
    /\ launched' = Some([ default_port |-> kwargs["port"],
                          default_baudrate |-> BaudOrDefault(kwargs["baud"]),
                          default_rts |-> kwargs["rts"],
                          default_dtr |-> kwargs["dtr"] ])
    /\ launchCount' = launchCount + 1
    /\ \E outcome \in {"returned", "raised"} : pc' = outcome
    /\ UNCHANGED << env, kwargs, project_options, platform, ports, argv,
                    enumCalls, hwidLookups, merged >>

Next == LoadProject \/ RegisterFilters \/ ResolvePort \/ BuildArgv \/ Launch

\* -------------------------------------------------------------------- inputs
Desc(p, h) == [port |-> p, hwid |-> h, description |-> "n/a"]

PortA == << "a" >>
PortB == << "b" >>
PortAB == << "a", "b" >>

HwNone == << "n", "/", "a" >>
Hw11 == << "P", "=", "1", ":", "1" >>
Hw22 == << "P", "=", "2", ":", "2" >>
HwBoth == << "1", ":", "1", " ", "2", ":", "2" >>

Pair11 == << << "0", "x", "1" >>, << "0", "x", "1" >> >>
Pair22 == << << "0", "x", "2" >>, << "0", "x", "2" >> >>
Pair33 == << << "3" >>, << "0", "x", "3" >> >>

\* State shared by every start: nothing has run yet.
Fresh ==
    /\ kwargs = cli
    /\ merged = cli
    /\ project_options = EmptyOptions
    /\ platform = None
    /\ ports = << >>
    /\ argv = << >>
    /\ launched = None
    /\ launchCount = 0
    /\ enumCalls = 0
    /\ hwidLookups = 0
    /\ pc = "start"

\* Project files: any subset of these keys, with these values.
ProjectPorts == { Some(PortB), Some(<< "b", "?" >>) }

ProjectFiles ==
    { [k \in D |-> CASE k = "platform" -> "atmelavr"
                     [] k = "board" -> "uno"
                     [] k = "port" -> pp
                     [] k = "baud" -> Some(57600)] :
        D \in SUBSET {"platform", "board", "port", "baud"}, pp \in ProjectPorts }

\* Invocations that vary the options and the project file.
InitOptions ==
    /\ cli \in { [CliDefaults EXCEPT !["port"] = p, !["baud"] = b,
                                     !["rts"] = r, !["dtr"] = d,
                                     !["echo"] = e, !["environment"] = v] :
                   p \in { None, Some(<< >>), Some(PortA), Some(<< "a", "*" >>) },
                   b \in { None, Some(0), Some(115200) },
                   r \in { None, Some(1) },
                   d \in { None, Some(0) },
                   e \in BOOLEAN,
                   v \in { None, Some("uno_env") } }
    /\ projectCtx \in { None } \cup { Some(f) : f \in ProjectFiles }
    /\ live \in { << >>, << Desc(PortAB, Hw22) >>,
                  << Desc(PortA, Hw22), Desc(PortB, Hw11) >> }
    /\ boardMeta = << Pair11 >>

\* Invocations that vary the requested port string and the port names.
InitGlob ==
    /\ cli \in { [CliDefaults EXCEPT !["port"] = Some(s)] :
                   s \in SeqsBetween({"a", "b"} \cup GlobChars, 1, MaxPatLen) }
    /\ projectCtx = None
    /\ live \in SeqsBetween({ Desc(n, HwNone) : n \in {PortA, PortB, PortAB} },
                            0, MaxPorts)
    /\ boardMeta = << >>

\* Invocations that vary the hardware IDs of the ports and of the board.
InitHwid ==
    /\ cli = CliDefaults
    /\ projectCtx = Some([platform |-> "atmelavr", board |-> "uno"])
    /\ live \in SeqsBetween({ Desc(n, h) : n \in {PortA, PortB},
                                          h \in {Hw11, Hw22, HwBoth} },
                            0, MaxPorts)
    /\ boardMeta \in SeqsBetween({Pair11, Pair22, Pair33}, 0, MaxPairs)

Init == (InitOptions \/ InitGlob \/ InitHwid) /\ Fresh

Spec == Init /\ [][Next]_vars

\* Invocations that leave the port to auto-selection, or vary the options.
InitAuto == (InitOptions \/ InitHwid) /\ Fresh

\* device_monitor is straight-line code: every step is eventually taken.
FairSpec == InitAuto /\ [][Next]_vars /\ WF_vars(Next)

\* ------------------------------------------------------------ claim helpers
AfterMerge == pc # "start"
AfterResolve == pc \in {"resolved", "argv", "returned", "raised"}
ArgvBuilt == pc \in {"argv", "returned", "raised"}
Launched == pc \in {"returned", "raised"}

\* The merged port is None or the empty string.
NoPortRequested == ~TruthyStr(merged["port"])

HwidMatches(item, pair) == Contains(item.hwid, HwidStr(pair))
PortMatchesBoard(i) == \E j \in 1..Len(boardMeta) : HwidMatches(live[i], boardMeta[j])
PairMatchesPort(j) == \E i \in 1..Len(live) : HwidMatches(live[i], boardMeta[j])
SomeHwidMatch == \E i \in 1..Len(live) : PortMatchesBoard(i)

\* No port requested, zero or several live ports, platform and board named.
HwidCase ==
    /\ AfterResolve
    /\ NoPortRequested
    /\ Len(live) # 1
    /\ HasBoardContext(project_options)

GlobRequested ==
    /\ TruthyStr(merged["port"])
    /\ \E i \in 1..Len(Val(merged["port"])) : Val(merged["port"])[i] \in {"*", "?", "[", "]"}
GlobMatches(i) == fnmatch(live[i].port, Val(merged["port"]))
SomeGlobMatch == \E i \in 1..Len(live) : GlobMatches(i)

\* ------------------------------------------------------------------ claim C1
\* C1 as stated: hardware-ID correlation is pair-major: the selected port is
\* the first live port matching the first board pair that matches any port.
C1_PairMajorSelection ==
    (HwidCase /\ SomeHwidMatch) =>
        LET j == CHOOSE j \in 1..Len(boardMeta) :
                     PairMatchesPort(j)
                     /\ \A j2 \in 1..(j - 1) : ~PairMatchesPort(j2)
            i == CHOOSE i \in 1..Len(live) :
                     HwidMatches(live[i], boardMeta[j])
                     /\ \A i2 \in 1..(i - 1) : ~HwidMatches(live[i2], boardMeta[j])
        IN kwargs["port"] = Some(live[i].port)

\* C1 amended: hardware-ID correlation is port-major: the selected port is the
\* first live port, in enumeration order, whose hardware ID contains the token
\* of any board pair; with no such port the port stays as merged.
C1_PortMajorSelection ==
    HwidCase =>
        IF SomeHwidMatch
        THEN LET i == CHOOSE i \in 1..Len(live) :
                          PortMatchesBoard(i)
                          /\ \A i2 \in 1..(i - 1) : ~PortMatchesBoard(i2)
             IN kwargs["port"] = Some(live[i].port)
        ELSE kwargs["port"] = merged["port"]

\* Pairs [A, B], ports [P1 with only B's token, P2 with only A's token]: P1 wins.
C1_Witness ==
    /\ HwidCase /\ pc = "returned"
    /\ boardMeta = << Pair11, Pair22 >>
    /\ live = << Desc(PortA, Hw22), Desc(PortB, Hw11) >>
    /\ kwargs["port"] = Some(PortA)

\* ------------------------------------------------------------------ claim C2
\* C2 as stated: a glob port string that matches no live port name reaches
\* the session launcher as "no value", not as the pattern.
C2_UnmatchedGlobIsNoValue ==
    (Launched /\ GlobRequested /\ ~SomeGlobMatch) =>
        ~TruthyStr(Val(launched).default_port)

\* ------------------------------------------------------------------ claim C3
\* C3: a glob port string resolves to the name of the first live port, in
\* enumeration order, that matches it.
C3_FirstGlobMatch ==
    (AfterResolve /\ GlobRequested /\ SomeGlobMatch) =>
        LET i == CHOOSE i \in 1..Len(live) :
                     GlobMatches(i) /\ \A i2 \in 1..(i - 1) : ~GlobMatches(i2)
        IN /\ kwargs["port"] = Some(live[i].port)
           /\ Launched => Val(launched).default_port = Some(live[i].port)

C3_Witness ==
    /\ pc = "returned" /\ GlobRequested
    /\ Len(live) = 2 /\ live[1].port # live[2].port
    /\ GlobMatches(1) /\ GlobMatches(2)
    /\ Val(launched).default_port = Some(live[1].port)

\* ------------------------------------------------------------------ claim C4
\* C4: a non-empty port string without * ? [ ] reaches the session launcher
\* verbatim, and the serial ports are never enumerated.
C4_LiteralPortVerbatim ==
    (AfterMerge /\ TruthyStr(merged["port"]) /\ ~GlobRequested) =>
        /\ enumCalls = 0
        /\ kwargs["port"] = merged["port"]
        /\ Launched => Val(launched).default_port = merged["port"]

C4_Witness ==
    /\ pc = "returned"
    /\ merged["port"] = Some(PortA)
    /\ HasBoardContext(project_options)
    /\ Len(live) = 1 /\ live[1].port # PortA
    /\ Val(launched).default_port = Some(PortA)
    /\ enumCalls = 0

\* ------------------------------------------------------------------ claim C5
\* C5: with no port requested and exactly one live port, that port is
\* selected, whatever the board context and the hardware IDs.
C5_SingletonSelected ==
    (AfterResolve /\ NoPortRequested /\ Len(live) = 1) =>
        /\ kwargs["port"] = Some(live[1].port)
        /\ hwidLookups = 0
        /\ Launched => Val(launched).default_port = Some(live[1].port)

C5_Witness ==
    /\ pc = "returned"
    /\ NoPortRequested
    /\ Len(live) = 1
    /\ HasBoardContext(project_options)
    /\ Len(boardMeta) > 0 /\ ~SomeHwidMatch
    /\ Val(launched).default_port = Some(live[1].port)

\* ------------------------------------------------------------------ claim C6
\* C6: without a project (NotPlatformIOProjectError) the command goes on with
\* the command-line options alone: no platform, no board lookup, an unset
\* port stays unset unless exactly one port is live, and miniterm is started.
C6_MissingProjectHarmless ==
    /\ [](projectCtx = None =>
            /\ pc # "aborted"
            /\ platform = None
            /\ project_options = EmptyOptions
            /\ merged = cli
            /\ hwidLookups = 0
            /\ (AfterResolve /\ ~TruthyStr(cli["port"]) /\ Len(live) # 1)
                   => kwargs["port"] = cli["port"]
            /\ Launched => launchCount = 1)
    /\ (projectCtx = None) ~> (launchCount = 1)

C6_Witness ==
    /\ projectCtx = None
    /\ pc = "returned"
    /\ cli["port"] = None
    /\ Len(live) = 2
    /\ Val(launched).default_port = None
    /\ launchCount = 1

\* ------------------------------------------------------------------ claim C7
NothingSelects ==
    /\ NoPortRequested
    /\ Len(live) # 1
    /\ ~(HasBoardContext(project_options) /\ SomeHwidMatch)

\* C7: when no port is requested and neither heuristic selects one, the
\* argument vector is still built and miniterm is still started, exactly
\* once and after resolution, with the port unset.
C7_UnresolvedNotFatal ==
    /\ [](launchCount <= 1)
    /\ [](launchCount = 1 => (Launched /\ Len(argv) > 0))
    /\ []((AfterResolve /\ NothingSelects) => kwargs["port"] = merged["port"])
    /\ []((Launched /\ NothingSelects) =>
            /\ Val(launched).default_port = merged["port"]
            /\ ~TruthyStr(Val(launched).default_port))
    /\ (pc = "loaded" /\ NothingSelects) ~> (launchCount = 1)

C7_Witness ==
    /\ pc = "returned"
    /\ NothingSelects
    /\ HasBoardContext(project_options)
    /\ Len(live) = 2 /\ Len(boardMeta) > 0
    /\ Val(launched).default_port = None
    /\ launchCount = 1

\* ------------------------------------------------------------------ claim C8
SeparateChannelKeys ==
    {"port", "baud", "rts", "dtr", "environment", "project_dir"}

\* C8: sys.argv never carries a token for port, baud, rts, dtr, environment
\* or project_dir, whatever their values.
C8_NoTokenForExcludedKeys ==
    ArgvBuilt =>
        /\ argv[1].k = "monitor"
        /\ \A i \in 2..Len(argv) : argv[i].k \notin SeparateChannelKeys

C8_Witness ==
    /\ pc = "returned"
    /\ merged["baud"] = Some(115200)
    /\ merged["rts"] # None /\ merged["dtr"] # None
    /\ merged["environment"] # None
    /\ TruthyStr(kwargs["port"])
    /\ \E i \in 2..Len(argv) : argv[i].k = "echo"

\* ------------------------------------------------------------------ claim C9
\* C9 as stated: after the merge no key of kwargs ever changes.
C9_NeverMutated == AfterMerge => kwargs = merged

\* C9 amended: after the merge every key but `port` keeps its value; `port`
\* is overwritten only by port resolution, and only when the merged port was
\* unset or held a glob metacharacter.
C9_OnlyPortRewritten ==
    AfterMerge =>
        /\ \A k \in Keys \ {"port"} : kwargs[k] = merged[k]
        /\ kwargs["port"] # merged["port"] =>
               /\ AfterResolve
               /\ NoPortRequested \/ GlobRequested

C9_Witness ==
    /\ pc = "returned"
    /\ projectCtx # None
    /\ merged # cli
    /\ kwargs["port"] # merged["port"]
    /\ \A k \in Keys \ {"port"} : kwargs[k] = merged[k]

\* ----------------------------------------------------------------- claim C10
BaudSetBySource ==
    \/ cli["baud"] # None
    \/ (projectCtx # None /\ "baud" \in DOMAIN Val(projectCtx))

\* C10 as stated: miniterm receives the merged baud rate whenever the command
\* line or the project set one, and 9600 when neither did.
C10_BaudAsSet ==
    Launched =>
        IF BaudSetBySource
        THEN Val(launched).default_baudrate = Val(merged["baud"])
        ELSE Val(launched).default_baudrate = DefaultBaud

====
